---- MODULE Spec2Model ----
(***************************************************************************)
(* A model of the schema-synchronizing query layer of koishi:              *)
(*   - the MySQL filter compiler and query facade (createFilter, get, set, *)
(*     remove, upsert), with the statements they hand to the connection;   *)
(*   - the SQLite schema synchronizer (syncTable, start);                  *)
(*   - the WebSocket client adapter (WsClient: _listen, start, stop).      *)
(* SQL text is a sequence of tokens (one-character strings for the         *)
(* characters that quoting rewrites, longer strings for fixed SQL text).   *)
(***************************************************************************)
EXTENDS Integers, Sequences, FiniteSets, TLC

VARIABLES
    rows,        \* MySQL: the rows of the physical table, a set of records
    last,        \* MySQL: the record of the last facade call (inputs, result, statements)
    config,      \* SQLite: Tables.config, table name -> Table Config
    physical,    \* SQLite: table name -> sequence of physical column names
    db,          \* SQLite: this.db, "none" until start() opens it
    pc,          \* SQLite: where start() is: "idle", "syncing", "ready", "failed"
    idx,         \* SQLite: the position of start()'s loop in the table order
    synced,      \* SQLite: the tables syncTable finished for, in order, in this start()
    hist,        \* SQLite: table name -> the records of its syncTable runs, latest last
    starts,      \* SQLite: the number of start() calls made
    query,       \* SQLite: the last query-traffic call since start() and what it met
    bots,        \* SQLite: app.bots, the platform of each bot
    fq,          \* compiler: the filter expression given to createFilter
    fres,        \* compiler: what createFilter returned for it, or "pending"
    listening,   \* WsClient: this._listening
    appOpen,     \* WsClient: this.app.status === App.Status.open
    started,     \* WsClient: start() was called
    stopped,     \* WsClient: stop() was called
    promise,     \* WsClient: the promise of _listen(bot): "none", "pending", "resolved", "rejected"
    retryCount,  \* WsClient: _retryCount of _listen(bot)
    retries,     \* WsClient: the retries made since the last open (or since start())
    botStatus,   \* WsClient: bot.status
    botSocket,   \* WsClient: bot.socket, a socket or NoSocket
    sock,        \* WsClient: socket -> "none", "connecting", "open", "closed"
    conn,        \* WsClient: socket -> the promise of this.connect(bot) made at its open
    closeReq,    \* WsClient: the sockets close() was called on
    preparing,   \* WsClient: connect(resolve, reject) is at its await this.prepare(bot)
    timer,       \* WsClient: a retry setTimeout is pending
    attempts,    \* WsClient: the number of connect(resolve, reject) calls made
    wsEvent      \* WsClient: the last step taken

wsVars == <<listening, appOpen, started, stopped, promise, retryCount, retries, botStatus,
            botSocket, sock, conn, closeReq, preparing, timer, attempts, wsEvent>>

vars == <<rows, last, config, physical, db, pc, idx, synced, hist, starts, query, bots,
          fq, fres, wsVars>>

facadeVars == <<rows, last>>
filterVars == <<fq, fres>>
syncVars == <<config, physical, db, pc, idx, synced, hist, starts, query, bots>>

----------------------------------------------------------------------------
(* Sequences helpers *)

RECURSIVE Join(_, _)
\* Array.prototype.join: the texts with sep between them
Join(ss, sep) ==
    IF ss = <<>> THEN <<>>
    ELSE IF Len(ss) = 1 THEN ss[1]
    ELSE ss[1] \o <<sep>> \o Join(Tail(ss), sep)

\* an includes that finds nothing
IncludesNever(ss, x) == FALSE

Includes(ss, x) == \E i \in 1..Len(ss) : ss[i] = x

Range(s) == {s[i] : i \in 1..Len(s)}

----------------------------------------------------------------------------
(* Values a caller can put into a filter.  t is the JavaScript shape:      *)
(* "num", "str", "arr", "regexp", "obj"; n the number, s the characters    *)
(* of a string (or of a RegExp's source), items the elements of an array.  *)

Num(n) == [t |-> "num", n |-> n, s |-> <<>>, items |-> <<>>]
Str(s) == [t |-> "str", n |-> 0, s |-> s, items |-> <<>>]
Arr(items) == [t |-> "arr", n |-> 0, s |-> <<>>, items |-> items]
RegExp(s) == [t |-> "regexp", n |-> 0, s |-> s, items |-> <<>>]
Obj == [t |-> "obj", n |-> 0, s |-> <<>>, items |-> <<>>]

\* one character of a string literal as sqlstring's escape writes it
EscapeChar(c) ==
    IF c = "'" THEN "\\'"
    ELSE IF c = "\"" THEN "\\\""
    ELSE IF c = "\\" THEN "\\\\"
    ELSE c

EscapeString(s) == <<"'">> \o [i \in 1..Len(s) |-> EscapeChar(s[i])] \o <<"'">>

RECURSIVE escape(_)
\* mysql's escape(value): a number bare, a string quoted with its quotes
\* escaped, an array as its escaped elements, any other object as its
\* key = value pairs (a RegExp and the empty object have none: the empty text)
escape(v) ==
    CASE v.t = "num" -> <<ToString(v.n)>>
      [] v.t = "str" -> EscapeString(v.s)
      [] v.t = "arr" -> Join([i \in 1..Len(v.items) |-> escape(v.items[i])], ", ")
      [] OTHER -> <<>>

\* The backquote character cannot be written in a string of this language:
\* "BQ" stands for it, "BQBQ" for two of them, "BQ.BQ" for a quoted dot.
BQ == "BQ"
BQ2 == "BQBQ"
BQdot == "BQ.BQ"

\* one character of an identifier as sqlstring's escapeId writes it
EscapeIdChar(c) ==
    IF c = BQ THEN BQ2
    ELSE IF c = "." THEN BQdot
    ELSE c

\* mysql's escapeId(name): the name between backticks, its backticks doubled
escapeId(key) == <<BQ>> \o [i \in 1..Len(key) |-> EscapeIdChar(key[i])] \o <<BQ>>

----------------------------------------------------------------------------
(* The filter compiler.  A compilation either returns a text or throws.    *)

Ok(text) == [st |-> "ok", text |-> text]
Throw == [st |-> "throw", text |-> <<"TypeError">>]
\* no result yet
Pending == [st |-> "pending", text |-> <<>>]

FALSE_SQL == <<"0">>
TRUE_SQL == <<"1">>

\* !value.length, for the shapes a caller can pass
NoLength(v) ==
    CASE v.t = "arr" -> Len(v.items) = 0
      [] v.t = "str" -> Len(v.s) = 0
      [] OTHER -> TRUE

\* createMemberQuery without its test of an empty list
createMemberQueryNoEmpty(key, value, notStr) ==
    IF value.t # "arr" THEN Throw
    ELSE Ok(key \o <<notStr, " IN ", "(">>
                \o Join([i \in 1..Len(value.items) |-> escape(value.items[i])], ", ")
                \o <<")">>)

createMemberQuery(key, value, notStr) ==
    IF NoLength(value) THEN Ok(IF notStr # "" THEN TRUE_SQL ELSE FALSE_SQL)
    ELSE IF value.t # "arr" THEN Throw    \* value.map is not a function
    ELSE Ok(key \o <<notStr, " IN ", "(">>
                \o Join([i \in 1..Len(value.items) |-> escape(value.items[i])], ", ")
                \o <<")">>)

\* value.source of a RegExp; of anything else it is undefined, escaped as NULL
createRegExpQuery(key, value) ==
    Ok(key \o <<" REGEXP ">>
           \o (IF value.t = "regexp" THEN EscapeString(value.s) ELSE <<"NULL">>))

createElementQuery(key, value) ==
    <<"FIND_IN_SET", "(">> \o escape(value) \o <<", ">> \o key \o <<")">>

comparator(operator, key, value) ==
    Ok(key \o <<" ", operator, " ">> \o escape(value))

createEqualQuery(key, value) == comparator("=", key, value)

\* !value in $size: zero, the empty string (null and undefined are not modelled)
Falsy(v) == (v.t = "num" /\ v.n = 0) \/ (v.t = "str" /\ Len(v.s) = 0)

OperatorNames ==
    {"$in", "$nin", "$eq", "$ne", "$gt", "$gte", "$lt", "$lte", "$regex", "$regexFor",
     "$el", "$size", "$bitsAllSet", "$bitsAllClear", "$bitsAnySet", "$bitsAnyClear"}

\* names queryOperators inherits from Object.prototype: "prop in
\* queryOperators" is true of them too (two of them are modelled)
InheritedNames == {"toString", "hasOwnProperty"}

\* prop in queryOperators
InOperators(prop) == prop \in OperatorNames \cup InheritedNames

\* queryOperators[prop](key, value)
queryOperators(prop, key, value) ==
    CASE prop = "$in" -> createMemberQuery(key, value, "")
      \* Object.prototype.toString called on queryOperators
      [] prop = "toString" -> Ok(<<"[object Object]">>)
      \* queryOperators.hasOwnProperty(key): the boolean false, which join
      \* renders as the text false
      [] prop = "hasOwnProperty" -> Ok(<<"false">>)
      [] prop = "$nin" -> createMemberQuery(key, value, " NOT")
      [] prop = "$eq" -> createEqualQuery(key, value)
      [] prop = "$ne" -> comparator("!=", key, value)
      [] prop = "$gt" -> comparator(">", key, value)
      [] prop = "$gte" -> comparator(">=", key, value)
      [] prop = "$lt" -> comparator("<", key, value)
      [] prop = "$lte" -> comparator("<=", key, value)
      [] prop = "$regex" -> createRegExpQuery(key, value)
      [] prop = "$regexFor" -> Ok(escape(value) \o <<" REGEXP ">> \o key)
      [] prop = "$el" ->
            IF value.t = "arr"
            THEN Ok(<<"(">>
                    \o Join([i \in 1..Len(value.items) |->
                                createElementQuery(key, value.items[i])], " || ")
                    \o <<")">>)
            ELSE IF value.t # "num" /\ value.t # "str" THEN Throw
            ELSE Ok(createElementQuery(key, value))
      [] prop = "$size" ->
            IF Falsy(value) THEN Ok(<<"!">> \o key)
            ELSE Ok(key \o <<" && LENGTH(">> \o key \o <<") - LENGTH(REPLACE(">> \o key
                        \o <<", \",\", \"\")) = ">> \o escape(value) \o <<" - 1">>)
      [] prop = "$bitsAllSet" ->
            Ok(key \o <<" & ">> \o escape(value) \o <<" = ">> \o escape(value))
      [] prop = "$bitsAllClear" -> Ok(key \o <<" & ">> \o escape(value) \o <<" = 0">>)
      [] prop = "$bitsAnySet" -> Ok(key \o <<" & ">> \o escape(value) \o <<" != 0">>)
      [] prop = "$bitsAnyClear" ->
            Ok(key \o <<" & ">> \o escape(value) \o <<" != ">> \o escape(value))

(* A filter expression (Query.Expr) is a sequence of entries, the object's *)
(* keys in their order.  An entry has the key, and by kind:                *)
(*   "$not": subs = <<the negated expression>>                             *)
(*   "$and", "$or": subs = the list of expressions                         *)
(*   "value": val = the shorthand value of a field                         *)
(*   "ops": ops = the operator map of a field, a sequence of [op, arg]     *)

NoVal == Num(0)
NotE(e) == [key |-> <<"$not">>, kind |-> "$not", val |-> NoVal, subs |-> <<e>>, ops |-> <<>>]
AndE(es) == [key |-> <<"$and">>, kind |-> "$and", val |-> NoVal, subs |-> es, ops |-> <<>>]
OrE(es) == [key |-> <<"$or">>, kind |-> "$or", val |-> NoVal, subs |-> es, ops |-> <<>>]
ValE(k, v) == [key |-> k, kind |-> "value", val |-> v, subs |-> <<>>, ops |-> <<>>]
OpsE(k, os) == [key |-> k, kind |-> "ops", val |-> NoVal, subs |-> <<>>, ops |-> os]
Op(o, a) == [op |-> o, arg |-> a]

RECURSIVE OpsConditions(_, _, _, _)
\* the loop "for (const prop in value)" from its i-th property on: the
\* conditions c so far with those of the recognised operators pushed
OpsConditions(escKey, os, i, c) ==
    IF i > Len(os) THEN Ok(c)
    ELSE IF InOperators(os[i].op)
         THEN LET r == queryOperators(os[i].op, escKey, os[i].arg)
              IN  IF r.st = "throw" THEN Throw
                  ELSE OpsConditions(escKey, os, i + 1, Append(c, r.text))
         ELSE OpsConditions(escKey, os, i + 1, c)

\* the shorthand and operator-map part of the loop body, for one key
FieldConditions(key, e) ==
    LET escKey == escapeId(key)
        one(r) == IF r.st = "throw" THEN Throw ELSE Ok(<<r.text>>)
    IN  CASE e.kind = "$or" ->
                \* an empty $or falls through to here: its value is the empty array
                one(createMemberQuery(escKey, Arr(e.subs), ""))
          [] e.kind = "value" /\ e.val.t = "arr" -> one(createMemberQuery(escKey, e.val, ""))
          [] e.kind = "value" /\ e.val.t = "regexp" -> one(createRegExpQuery(escKey, e.val))
          [] e.kind = "value" /\ e.val.t \in {"str", "num"} ->
                one(createEqualQuery(escKey, e.val))
          [] e.kind = "value" -> Ok(<<>>)    \* an object without operator keys
          [] OTHER -> OpsConditions(escKey, e.ops, 1, <<>>)

RECURSIVE parseQuery(_)
RECURSIVE ParseFrom(_, _, _)
RECURSIVE ParseList(_, _, _)

\* query.$and.map(parseQuery) / query.$or.map(parseQuery) from the i-th on
ParseList(es, i, acc) ==
    IF i > Len(es) THEN Ok(acc)
    ELSE LET r == parseQuery(es[i])
         IN  IF r.st = "throw" THEN Throw ELSE ParseList(es, i + 1, Append(acc, r.text))

\* the loop "for (const key in query)" from its i-th key on, then the
\* three returns that follow it
ParseFrom(q, i, conditions) ==
    IF i > Len(q)
    THEN IF Len(conditions) = 0 THEN Ok(TRUE_SQL)
         ELSE IF Includes(conditions, FALSE_SQL) THEN Ok(FALSE_SQL)
         ELSE Ok(Join(conditions, " && "))
    ELSE LET e == q[i] IN
         CASE e.kind = "$not" ->
                LET r == parseQuery(e.subs[1])
                IN  IF r.st = "throw" THEN Throw
                    ELSE ParseFrom(q, i + 1,
                            Append(conditions, <<"!", "(">> \o r.text \o <<")">>))
           [] e.kind = "$and" ->
                IF Len(e.subs) = 0 THEN Ok(FALSE_SQL)
                ELSE LET r == ParseList(e.subs, 1, <<>>)
                     IN  IF r.st = "throw" THEN Throw
                         ELSE ParseFrom(q, i + 1, conditions \o r.text)
           [] e.kind = "$or" /\ Len(e.subs) > 0 ->
                LET r == ParseList(e.subs, 1, <<>>)
                IN  IF r.st = "throw" THEN Throw
                    ELSE ParseFrom(q, i + 1,
                            Append(conditions, <<"(">> \o Join(r.text, " || ") \o <<")">>))
           [] OTHER ->
                LET r == FieldConditions(e.key, e)
                IN  IF r.st = "throw" THEN Throw
                    ELSE ParseFrom(q, i + 1, conditions \o r.text)

parseQuery(q) == ParseFrom(q, 1, <<>>)

\* createFilter(name, query); Query.resolve leaves an expression object as it is
createFilter(name, q) == parseQuery(q)

----------------------------------------------------------------------------
(* The MySQL query facade over one table, "user", with the primary key id  *)
(* and the nullable fields a and b.                                        *)

MaxKey == 2        \* primary-key values of rows are 1..MaxKey
MaxList == 2       \* the longest list ($and, $or, array operand) in a filter

TableName == <<"user">>
KeyId == <<"id">>
KeyA == <<"a">>
KeyB == <<"b">>
FieldNames == <<"id", "a", "b">>
Undef == "undefined"      \* a key an object does not have
NullV == "NULL"           \* SQL NULL
Vals == {"1", "2"}
Keys == {ToString(k) : k \in 1..MaxKey}

\* Tables.config.user.primary
Primary == <<"id">>

\* Koishi.Tables.create(name): a row holding the declared initial values
\* (here b has the initial value "1", id and a have none)
Tables_create(name) == [id |-> Undef, a |-> Undef, b |-> "1"]

\* { ...x, ...y }: y's own keys over x's
Spread(x, y) == [f \in DOMAIN x |-> IF y[f] # Undef THEN y[f] ELSE x[f]]

\* Object.keys of a row object over id, a, b
ObjectKeys(o) == SelectSeq(FieldNames, LAMBDA f : o[f] # Undef)

\* difference(fields, keys) of koishi's utilities
difference(fs, ks) == SelectSeq(fs, LAMBDA f : ~Includes(ks, f))

\* this.joinKeys(keys): the quoted keys, comma separated; * without keys
joinKeys(ks) ==
    IF ks = <<>> THEN <<"*">>
    ELSE Join([i \in 1..Len(ks) |-> escapeId(<<ks[i]>>)], ",")

\* this.formatValues(name, data, keys): the bound values of one row, NULL
\* for a key the row does not have
formatValues(name, o, ks) ==
    [i \in 1..Len(ks) |-> IF o[ks[i]] = Undef THEN NullV ELSE o[ks[i]]]

\* the "key = VALUES(key)" list that set and upsert build
UpdateList(ks) ==
    Join([i \in 1..Len(ks) |->
            escapeId(<<ks[i]>>) \o <<" = VALUES(">> \o escapeId(<<ks[i]>>) \o <<")">>], ", ")

(* The connection.  A statement is the text handed to this.query with the  *)
(* parts of it the server acts on.  The server evaluates a WHERE text on   *)
(* its own: which rows it selects is left open, except that the text 1     *)
(* selects every row.                                                      *)

(* What a facade call returns: nothing (undefined), the literal empty array, *)
(* an affected-row count, what this.query resolved to, or an exception.     *)
Ret(kind, n) == [kind |-> kind, n |-> n]
NoRet == Ret("undefined", 0)
EmptyRet == Ret("empty", 0)
QueryRet == Ret("result", 0)
ThrowRet == Ret("throw", 0)

\* the rows a WHERE text can select
Selections(rs, where) == IF where = TRUE_SQL THEN {rs} ELSE SUBSET rs

\* UPDATE t SET k = VALUES(k), ... without a WHERE: every row is updated,
\* and VALUES(k) outside INSERT ... ON DUPLICATE KEY UPDATE is NULL
ExecUpdate(rs, ks) ==
    {[f \in DOMAIN r |-> IF Includes(ks, f) THEN NullV ELSE r[f]] : r \in rs}

\* one tuple of INSERT ... ON DUPLICATE KEY UPDATE: a row with the tuple's
\* primary key has the columns of the update list set to the tuple's values,
\* otherwise the tuple is inserted, its missing columns NULL
UpsertOne(rs, ks, vs, upd) ==
    LET tuple == [f \in {"id", "a", "b"} |->
                    IF \E i \in 1..Len(ks) : ks[i] = f
                    THEN vs[CHOOSE i \in 1..Len(ks) : ks[i] = f]
                    ELSE NullV]
        hit == {r \in rs : r.id = tuple.id}
    IN  IF hit = {}
        THEN rs \cup {tuple}
        ELSE (rs \ hit) \cup
             {[f \in DOMAIN r |-> IF Includes(upd, f) THEN tuple[f] ELSE r[f]] : r \in hit}

RECURSIVE ExecUpsert(_, _, _, _)
ExecUpsert(rs, ks, tuples, upd) ==
    IF tuples = <<>> THEN rs
    ELSE ExecUpsert(UpsertOne(rs, ks, Head(tuples), upd), ks, Tail(tuples), upd)

(* Inputs of the facade calls. *)

NoRow == [id |-> Undef, a |-> Undef, b |-> Undef]
NoArg == [q |-> <<>>, mod |-> [fields |-> <<>>, limit |-> 0, offset |-> 0],
          patch |-> NoRow, data |-> <<>>, keys |-> <<>>]

Modifiers ==
    {[fields |-> <<>>, limit |-> 0, offset |-> 0],
     [fields |-> <<"id", "a">>, limit |-> 1, offset |-> 2]}

\* the patches given to set
Patches ==
    {[id |-> Undef, a |-> "2", b |-> Undef],
     [id |-> Undef, a |-> "1", b |-> "2"]}

\* the rows given to upsert carry their primary key
Items == [id : Keys, a : Vals \cup {Undef}, b : {"2", Undef}]

ItemLists ==
    {<<>>} \cup {<<x>> : x \in Items}
    \cup {<<[id |-> "1", a |-> Undef, b |-> y], [id |-> "2", a |-> "2", b |-> Undef]>> :
            y \in {"2", Undef}}

\* the calls of upsert: the conflict keys left out (the primary key), or a
UpsertCalls ==
    {[data |-> d, keys |-> <<>>] : d \in ItemLists}
    \cup {[data |-> <<x>>, keys |-> <<"a">>] : x \in {y \in Items : y.a = "1" /\ y.b = Undef}}

\* the filters the facade is called with
FacadeQueries ==
    {<<>>,
     <<ValE(KeyId, Num(1))>>,
     <<ValE(KeyId, Arr(<<>>))>>,
     <<OrE(<<>>)>>,
     <<AndE(<<>>)>>,
     <<ValE(KeyId, Num(2)), OpsE(KeyA, <<Op("$in", Arr(<<>>))>>)>>,
     <<OpsE(KeyA, <<Op("$el", Obj)>>)>>,
     <<NotE(<<ValE(KeyA, Str(<<"x", "'">>))>>)>>}

\* a facade that never takes the shortcut
IsFalseNever(text) == FALSE

\* filter === '0'
IsFalse(text) == text = FALSE_SQL

Call(op, arg, filter, stmts, ret) ==
    [op |-> op, arg |-> arg, filter |-> filter, stmts |-> stmts, ret |-> ret]

\* get(name, query, modifier)
Get(q, mod) ==
    LET filter == createFilter(TableName, q)
        arg == [NoArg EXCEPT !.q = q, !.mod = mod]
        sql == <<"SELECT ">> \o joinKeys(mod.fields) \o <<" FROM ">> \o TableName
               \o <<" _">> \o TableName \o <<" WHERE ">> \o filter.text
               \o (IF mod.limit # 0 THEN <<" LIMIT ", ToString(mod.limit)>> ELSE <<>>)
               \o (IF mod.offset # 0 THEN <<" OFFSET ", ToString(mod.offset)>> ELSE <<>>)
    IN  /\ UNCHANGED rows
        /\ last' = IF filter.st = "throw" THEN Call("get", arg, filter, <<>>, ThrowRet)
                   ELSE IF IsFalse(filter.text)
                        THEN Call("get", arg, filter, <<>>, EmptyRet)
                        ELSE Call("get", arg, filter, <<sql>>, QueryRet)

\* set(name, query, data)
Set(q, data) ==
    LET filter == createFilter(TableName, q)
        arg == [NoArg EXCEPT !.q = q, !.patch = data]
        keys == ObjectKeys(data)
        sql == <<"UPDATE ">> \o TableName \o <<" SET ">> \o UpdateList(keys)
    IN  IF filter.st = "throw"
        THEN /\ UNCHANGED rows
             /\ last' = Call("set", arg, filter, <<>>, ThrowRet)
        ELSE IF IsFalse(filter.text)
        THEN /\ UNCHANGED rows
             /\ last' = Call("set", arg, filter, <<>>, NoRet)
        ELSE /\ rows' = ExecUpdate(rows, keys)
             /\ last' = Call("set", arg, filter, <<sql>>, NoRet)

\* remove(name, query)
Remove(q) ==
    LET filter == createFilter(TableName, q)
        arg == [NoArg EXCEPT !.q = q]
        sql == <<"DELETE FROM ">> \o escapeId(TableName) \o <<" WHERE ">> \o filter.text
    IN  IF filter.st = "throw"
        THEN /\ UNCHANGED rows
             /\ last' = Call("remove", arg, filter, <<>>, ThrowRet)
        ELSE IF IsFalse(filter.text)
        THEN /\ UNCHANGED rows
             /\ last' = Call("remove", arg, filter, <<>>, NoRet)
        ELSE /\ \E gone \in Selections(rows, filter.text) : rows' = rows \ gone
             /\ last' = Call("remove", arg, filter, <<sql>>, NoRet)

\* upsert(name, data, keys)
Upsert(items, ks) ==
    LET arg == [NoArg EXCEPT !.data = items, !.keys = ks]
        data == [i \in 1..Len(items) |-> Spread(items[i], Tables_create(TableName))]
        keys == IF ks # <<>> THEN ks ELSE Primary
        fields == ObjectKeys(data[1])
        update == difference(fields, keys)
        tuples == [i \in 1..Len(data) |-> formatValues(TableName, data[i], fields)]
        sql == <<"INSERT INTO ">> \o escapeId(TableName) \o <<" (">> \o joinKeys(fields)
               \o <<") VALUES ">>
               \o Join([i \in 1..Len(data) |->
                          <<"(">> \o Join([j \in 1..Len(fields) |-> <<"?">>], ", ")
                          \o <<")">>], ", ")
               \o <<" ON DUPLICATE KEY UPDATE ">> \o UpdateList(update)
    IN  IF Len(items) = 0
        THEN /\ UNCHANGED rows
             /\ last' = Call("upsert", arg, Ok(<<>>), <<>>, NoRet)
        ELSE IF update = <<>>
        THEN \* an empty update list is a syntax error: the statement fails
             /\ UNCHANGED rows
             /\ last' = Call("upsert", arg, Ok(<<>>), <<sql>>, ThrowRet)
        ELSE /\ rows' = ExecUpsert(rows, fields, tuples, update)
             /\ last' = Call("upsert", arg, Ok(<<>>), <<sql>>, NoRet)

FacadeIdle == Call("none", NoArg, Ok(<<>>), <<>>, NoRet)

----------------------------------------------------------------------------
(* The SQLite schema synchronizer.                                         *)

MaxStarts == 2     \* start() is called at most this many times
MaxBots == 2       \* app.bots holds at most this many bots

\* the keys of Tables.config in their order: the registration order
TableOrder == <<"user", "channel">>
Platforms == {"onebot", "discord"}

\* a Field Spec; initial and nullable are "undefined" when not given
Field(name, type, initial, nullable) ==
    [name |-> name, type |-> type, initial |-> initial, nullable |-> nullable]

FId == Field("id", "unsigned", Undef, Undef)
FName == Field("name", "string", "x", Undef)
FFlag == Field("flag", "unsigned", "0", "false")

\* config.primary is one field name or an array of field names (or is not
\* given): arr tells the shape, names the names
Single(name) == [arr |-> FALSE, names |-> <<name>>]
List(names) == [arr |-> TRUE, names |-> names]
\* makeArray(config.primary)
makeArray(p) == p.names

TableConfig(fields, primary, autoInc, unique) ==
    [fields |-> fields, primary |-> primary, autoInc |-> autoInc, unique |-> unique]

\* the declared fields a table is registered with
DeclaredChoices == {<<FId, FName>>, <<FId, FFlag, FName>>}
\* the Table Configs a table is registered with
ConfigChoices(table) ==
    IF table = "user"
    THEN {TableConfig(fs, Single("id"), auto, <<>>) : fs \in DeclaredChoices, auto \in BOOLEAN}
    ELSE {TableConfig(<<FId, FName>>, Single("id"), FALSE, <<>>),
          \* the primary key given as a list of one name, auto-incremented
          TableConfig(<<FId, FName>>, List(<<"id">>), TRUE, <<>>),
          \* a primary key, and a unique key, that is not a field
          TableConfig(<<FId, FName>>, Single("gone"), FALSE, <<>>),
          TableConfig(<<FId, FName>>, Single("id"), FALSE, <<"gone">>)}
\* the columns a table has before start(): none when the table is absent
PhysicalChoices(table) ==
    IF table = "user"
    THEN {<<>>, <<"id", "old">>, <<"old", "name">>}
    ELSE {<<>>, <<"id", "name">>, <<"id", "old">>}
\* the bots of the app: the first one's platform is onebot
BotChoices ==
    {<<>>} \cup {<<"onebot">> \o rest : rest \in UNION {[1..k -> Platforms] : k \in 0..(MaxBots - 1)}}

FieldKeys(cfg) == [i \in 1..Len(cfg.fields) |-> cfg.fields[i].name]

getTypeDefinition(field) ==
    CASE field.type \in {"integer", "unsigned", "date", "time", "timestamp"} -> "INTEGER"
      [] field.type \in {"float", "double", "decimal"} -> "REAL"
      [] field.type \in {"char", "string", "text", "list", "json"} -> "TEXT"

\* getColumnDefinitionSQL(table, key, adapter) for the field f of cfg; the
\* default is dumped by the caster and quoted as a string literal
getColumnDefinitionSQL(cfg, f) ==
    LET nullable == IF f.nullable = Undef THEN f.initial = Undef ELSE f.nullable = "true"
        \* key === config.primary: false for an array, whatever it holds
        auto == ~cfg.primary.arr /\ cfg.primary.names = <<f.name>> /\ cfg.autoInc
    IN  [name |-> f.name,
         inlinePk |-> auto,
         text |-> escapeId(<<f.name>>) \o
                  (IF auto THEN <<" INTEGER NOT NULL PRIMARY KEY AUTOINCREMENT">>
                   ELSE <<" ", getTypeDefinition(f), IF nullable THEN " " ELSE " NOT ", "NULL">>
                        \o (IF f.initial # Undef
                            THEN <<" DEFAULT ">> \o EscapeString(<<f.initial>>)
                            ELSE <<>>))]

\* the statements syncTable hands to run
AddColumn(table, def) ==
    [op |-> "ADD COLUMN", table |-> table, col |-> def.name, defs |-> <<def>>,
     constraints |-> <<>>]
DropColumn(table, key) ==
    [op |-> "DROP COLUMN", table |-> table, col |-> key, defs |-> <<>>, constraints |-> <<>>]
CreateTable(table, defs, constraints) ==
    [op |-> "CREATE", table |-> table, col |-> "", defs |-> defs, constraints |-> constraints]

\* new Set(bots.map(bot => bot.platform)) in insertion order
RECURSIVE Distinct(_)
Distinct(s) ==
    IF s = <<>> THEN <<>>
    ELSE LET init == Distinct(SubSeq(s, 1, Len(s) - 1))
         IN  IF Includes(init, s[Len(s)]) THEN init ELSE Append(init, s[Len(s)])

\* config.fields[platform] = { type: 'string', length: 63 }: replaces the
\* field of that name in place, or adds it last
SetField(fields, f) ==
    IF \E i \in 1..Len(fields) : fields[i].name = f.name
    THEN [i \in 1..Len(fields) |-> IF fields[i].name = f.name THEN f ELSE fields[i]]
    ELSE Append(fields, f)

RECURSIVE AddPlatforms(_, _)
\* the forEach over the platforms: one field and one unique entry each
AddPlatforms(cfg, ps) ==
    IF ps = <<>> THEN cfg
    ELSE AddPlatforms(
            [cfg EXCEPT !.fields = SetField(@, Field(Head(ps), "string", Undef, Undef)),
                        !.unique = Append(@, Head(ps))],
            Tail(ps))

\* Tables.config[table] as syncTable leaves it
SyncedConfig(table, cfg, bs) ==
    IF table = "user" THEN AddPlatforms(cfg, Distinct(bs)) ELSE cfg

\* the "auto updating" branch without its DROP COLUMN
AlterStatementsNoDrop(table, cfg, info) ==
    LET keys == FieldKeys(cfg)
        todo == SelectSeq(cfg.fields, LAMBDA f : ~Includes(info, f.name))
    IN  [k \in 1..Len(todo) |-> AddColumn(table, getColumnDefinitionSQL(cfg, todo[k]))]

\* the "auto updating" branch without its test of a name both declared and
\* physical
AlterStatementsNoSkip(table, cfg, info) ==
    LET keys == FieldKeys(cfg)
        allKeys == keys \o info
    IN  [i \in 1..Len(allKeys) |->
            IF Includes(keys, allKeys[i])
            THEN AddColumn(table,
                    getColumnDefinitionSQL(cfg,
                        cfg.fields[CHOOSE j \in 1..Len(keys) : keys[j] = allKeys[i]]))
            ELSE DropColumn(table, allKeys[i])]

\* the statements of the "auto updating" branch, in the order of allKeys
AlterStatements(table, cfg, info) ==
    LET keys == FieldKeys(cfg)
        allKeys == keys \o info
        stmt(i) ==
            IF Includes(keys, allKeys[i])
            THEN AddColumn(table,
                    getColumnDefinitionSQL(cfg,
                        cfg.fields[CHOOSE j \in 1..Len(keys) : keys[j] = allKeys[i]]))
            ELSE DropColumn(table, allKeys[i])
        todo == SelectSeq([i \in 1..Len(allKeys) |-> i],
                    LAMBDA i : ~(Includes(keys, allKeys[i]) /\ Includes(info, allKeys[i])))
    IN  [k \in 1..Len(todo) |-> stmt(todo[k])]

\* the statement of the "auto creating" branch
CreateStatement(table, cfg) ==
    LET defs == [i \in 1..Len(cfg.fields) |-> getColumnDefinitionSQL(cfg, cfg.fields[i])]
        pk == IF cfg.primary.names # <<>> /\ ~cfg.autoInc
              THEN <<[kind |-> "PRIMARY KEY", keys |-> makeArray(cfg.primary)]>> ELSE <<>>
        uq == [i \in 1..Len(cfg.unique) |-> [kind |-> "UNIQUE", keys |-> <<cfg.unique[i]>>]]
    IN  CreateTable(table, defs, pk \o uq)

\* syncTable taking every table for absent
SyncStatementsAlwaysCreate(table, cfg, info) == <<CreateStatement(table, cfg)>>

\* what syncTable hands to run when nothing fails
SyncStatements(table, cfg, info) ==
    IF Len(info) # 0 THEN AlterStatements(table, cfg, info)
    ELSE <<CreateStatement(table, cfg)>>

(* The connection's side of run(sql).  Any statement can fail; these must: *)
(* a CREATE of an existing table, without columns or with a constraint on  *)
(* a name that is no column, a DROP of a missing or of the only column, an *)
(* ADD of an existing or of a PRIMARY KEY column.                          *)
MustFail(cols, stmt) ==
    CASE stmt.op = "CREATE" ->
            \/ Len(stmt.defs) = 0
            \/ Len(cols) # 0
            \/ \E i \in 1..Len(stmt.constraints) :
                  \E j \in 1..Len(stmt.constraints[i].keys) :
                     \A d \in 1..Len(stmt.defs) :
                        stmt.defs[d].name # stmt.constraints[i].keys[j]
      [] stmt.op = "DROP COLUMN" -> Len(cols) <= 1 \/ ~Includes(cols, stmt.col)
      [] stmt.op = "ADD COLUMN" -> stmt.defs[1].inlinePk \/ Includes(cols, stmt.col)

\* the columns after a statement that succeeded
Apply(cols, stmt) ==
    CASE stmt.op = "CREATE" -> [i \in 1..Len(stmt.defs) |-> stmt.defs[i].name]
      [] stmt.op = "DROP COLUMN" -> SelectSeq(cols, LAMBDA c : c # stmt.col)
      [] stmt.op = "ADD COLUMN" -> Append(cols, stmt.col)

RECURSIVE ApplyAll(_, _)
ApplyAll(cols, stmts) ==
    IF stmts = <<>> THEN cols ELSE ApplyAll(Apply(cols, Head(stmts)), Tail(stmts))

\* the first k statements can all succeed
RECURSIVE CanRun(_, _, _)
CanRun(cols, stmts, k) ==
    IF k = 0 THEN TRUE
    ELSE /\ ~MustFail(cols, Head(stmts))
         /\ CanRun(Apply(cols, Head(stmts)), Tail(stmts), k - 1)

\* the runs of syncTable(table): k statements succeed, and either that is
\* all of them or the next one is issued, fails and ends syncTable
SyncRuns(table, cfg, info) ==
    LET stmts == SyncStatements(table, cfg, info)
    IN  {[ddl |-> SubSeq(stmts, 1, IF k < Len(stmts) THEN k + 1 ELSE k),
          ok |-> k = Len(stmts),
          keys |-> FieldKeys(cfg),
          before |-> info,
          after |-> ApplyAll(info, SubSeq(stmts, 1, k))] :
            k \in {j \in 0..Len(stmts) : CanRun(info, stmts, j)}}

NoQuery == [table |-> "", executed |-> FALSE, wasSynced |-> FALSE, phase |-> "idle"]

\* start(), up to its loop: the connection is opened
Start ==
    /\ pc \in {"idle", "ready", "failed"}
    /\ starts < MaxStarts
    /\ db' = "open"
    /\ pc' = "syncing"
    /\ idx' = 1
    /\ synced' = <<>>
    /\ starts' = starts + 1
    /\ query' = NoQuery
    /\ UNCHANGED <<config, physical, hist, bots>>

\* a loop that stops one table early
LoopHasNextOffByOne(i) == i < Len(TableOrder)

\* whether start()'s loop has a table left
LoopHasNext(i) == i <= Len(TableOrder)

\* one turn of start()'s loop: syncTable(name)
SyncTable ==
    /\ pc = "syncing"
    /\ LoopHasNext(idx)
    /\ LET table == TableOrder[idx]
           cfg == SyncedConfig(table, config[table], bots)
       IN  \E run \in SyncRuns(table, cfg, physical[table]) :
             /\ config' = [config EXCEPT ![table] = cfg]
             /\ physical' = [physical EXCEPT ![table] = run.after]
             /\ hist' = [hist EXCEPT ![table] = Append(@, run)]
             /\ IF run.ok
                THEN /\ synced' = Append(synced, table)
                     /\ idx' = idx + 1
                     /\ pc' = "syncing"
                ELSE /\ pc' = "failed"
                     /\ UNCHANGED <<synced, idx>>
    /\ UNCHANGED <<db, starts, query, bots>>

\* start() returns: the connection is reported ready
StartDone ==
    /\ pc = "syncing"
    /\ ~LoopHasNext(idx)
    /\ pc' = "ready"
    /\ UNCHANGED <<config, physical, db, idx, synced, hist, starts, query, bots>>

\* stop()
Stop ==
    /\ pc \in {"ready", "failed"}
    /\ db = "open"
    /\ db' = "closed"
    /\ pc' = "idle"
    /\ UNCHANGED <<config, physical, idx, synced, hist, starts, query, bots>>

\* whether a call of the host can run now: start() has no await, so nothing
\* runs between its statements
HostCanCall == pc # "syncing"

\* query traffic against a table: run, get or all with a statement on it;
\* this.db.prepare throws unless the connection is open
Query(table) ==
    /\ HostCanCall
    /\ query' = [table |-> table, executed |-> db = "open",
                 wasSynced |-> Includes(synced, table), phase |-> pc]
    /\ UNCHANGED <<config, physical, db, pc, idx, synced, hist, starts, bots>>

----------------------------------------------------------------------------
(* The WebSocket client adapter (WsClient) with one bot.  A socket is the  *)
(* number of the connect(resolve, reject) call that prepared it; within    *)
(* one _listen(bot) the calls follow one another, so at most one socket is *)
(* connecting or open.                                                     *)

RetryTimes == 2    \* options.retryTimes
MaxSockets == 4    \* connect(resolve, reject) is called at most this many times

NoSocket == 0      \* bot.socket when it is null or undefined
Sockets == 1..MaxSockets

\* a retry limit that is passed one close late
ExhaustedOffByOne(count) == count > RetryTimes

\* _retryCount >= retryTimes
Exhausted(count) == count >= RetryTimes

\* resolve() and reject() of the promise of _listen(bot): a settled promise
\* stays as it is
Settle(p, how) == IF p = "pending" THEN how ELSE p

WsEvent(kind, id) == [kind |-> kind, id |-> id]

\* connect(resolve, reject) up to its await this.prepare(bot)
ConnectBegins ==
    /\ botStatus' = "CONNECTING"
    /\ preparing' = TRUE
    /\ attempts' = attempts + 1

\* start(), with the one bot: _listen(bot) runs the executor connect at once
WsStart ==
    /\ ~started
    /\ started' = TRUE
    /\ listening' = TRUE
    /\ promise' = "pending"
    /\ retryCount' = 0
    /\ ConnectBegins
    /\ wsEvent' = WsEvent("start", NoSocket)
    /\ UNCHANGED <<appOpen, stopped, retries, botSocket, sock, conn, closeReq, timer>>

\* this.prepare(bot) gives the socket: the handlers are attached to it
PrepareDone ==
    /\ preparing
    /\ preparing' = FALSE
    /\ sock' = [sock EXCEPT ![attempts] = "connecting"]
    /\ wsEvent' = WsEvent("prepared", attempts)
    /\ UNCHANGED <<listening, appOpen, started, stopped, promise, retryCount, retries,
                   botStatus, botSocket, conn, closeReq, timer, attempts>>

\* this.prepare(bot) rejects: the async executor ends, nothing settles
PrepareFails ==
    /\ preparing
    /\ preparing' = FALSE
    /\ wsEvent' = WsEvent("prepare failed", NoSocket)
    /\ UNCHANGED <<listening, appOpen, started, stopped, promise, retryCount, retries,
                   botStatus, botSocket, sock, conn, closeReq, timer, attempts>>

\* socket.on('open'): this.connect(bot) is called and left pending
SocketOpen(id) ==
    /\ sock[id] = "connecting"
    /\ sock' = [sock EXCEPT ![id] = "open"]
    /\ retryCount' = 0
    /\ retries' = 0
    /\ botSocket' = id
    /\ conn' = [conn EXCEPT ![id] = "pending"]
    /\ wsEvent' = WsEvent("open", id)
    /\ UNCHANGED <<listening, appOpen, started, stopped, promise, botStatus, closeReq,
                   preparing, timer, attempts>>

\* socket.on('close'), of a socket that failed to connect, that the peer
\* closed, or that stop() closed
SocketClose(id) ==
    /\ sock[id] \in {"connecting", "open"}
    /\ sock' = [sock EXCEPT ![id] = "closed"]
    /\ botSocket' = NoSocket
    /\ botStatus' = "NET_ERROR"
    /\ wsEvent' = WsEvent("close", id)
    /\ IF ~listening
       THEN UNCHANGED <<promise, retryCount, timer>>
       ELSE IF Exhausted(retryCount) /\ ~appOpen
       THEN /\ promise' = Settle(promise, "rejected")
            /\ UNCHANGED <<retryCount, timer>>
       ELSE /\ retryCount' = retryCount + 1
            /\ timer' = TRUE
            /\ UNCHANGED promise
    /\ UNCHANGED <<listening, appOpen, started, stopped, retries, conn, closeReq,
                   preparing, attempts>>

\* the setTimeout callback: connect again when still listening
TimerFires ==
    /\ timer
    /\ timer' = FALSE
    /\ wsEvent' = WsEvent("timer", NoSocket)
    /\ IF listening
       THEN /\ attempts < MaxSockets
            /\ ConnectBegins
            /\ retries' = retries + 1
       ELSE UNCHANGED <<botStatus, preparing, attempts, retries>>
    /\ UNCHANGED <<listening, appOpen, started, stopped, promise, retryCount, botSocket,
                   sock, conn, closeReq>>

\* this.connect(bot) of the socket id fulfils: the first callback of then
ConnectResolves(id) ==
    /\ conn[id] = "pending"
    /\ conn' = [conn EXCEPT ![id] = "resolved"]
    /\ botStatus' = "GOOD"
    /\ promise' = Settle(promise, "resolved")
    /\ wsEvent' = WsEvent("connect resolved", id)
    /\ UNCHANGED <<listening, appOpen, started, stopped, retryCount, retries, botSocket,
                   sock, closeReq, preparing, timer, attempts>>

\* this.connect(bot) of the socket id rejects: reject is the second callback
ConnectRejects(id) ==
    /\ conn[id] = "pending"
    /\ conn' = [conn EXCEPT ![id] = "rejected"]
    /\ promise' = Settle(promise, "rejected")
    /\ wsEvent' = WsEvent("connect rejected", id)
    /\ UNCHANGED <<listening, appOpen, started, stopped, retryCount, retries, botStatus,
                   botSocket, sock, closeReq, preparing, timer, attempts>>

\* stop(): bot.socket?.close() asks the socket in bot.socket to close
WsStop ==
    /\ started
    /\ ~stopped
    /\ stopped' = TRUE
    /\ listening' = FALSE
    /\ closeReq' = IF botSocket # NoSocket THEN closeReq \cup {botSocket} ELSE closeReq
    /\ wsEvent' = WsEvent("stop", NoSocket)
    /\ UNCHANGED <<appOpen, started, promise, retryCount, retries, botStatus, botSocket,
                   sock, conn, preparing, timer, attempts>>

\* the app reaches App.Status.open
AppOpens ==
    /\ ~appOpen
    /\ appOpen' = TRUE
    /\ wsEvent' = WsEvent("app open", NoSocket)
    /\ UNCHANGED <<listening, started, stopped, promise, retryCount, retries, botStatus,
                   botSocket, sock, conn, closeReq, preparing, timer, attempts>>

\* the adapter as constructed: _listening = false, the bot idle
InitWs ==
    /\ listening = FALSE
    /\ appOpen = FALSE
    /\ started = FALSE
    /\ stopped = FALSE
    /\ promise = "none"
    /\ retryCount = 0
    /\ retries = 0
    /\ botStatus = "BOT_IDLE"
    /\ botSocket = NoSocket
    /\ sock = [id \in Sockets |-> "none"]
    /\ conn = [id \in Sockets |-> "none"]
    /\ closeReq = {}
    /\ preparing = FALSE
    /\ timer = FALSE
    /\ attempts = 0
    /\ wsEvent = WsEvent("none", NoSocket)

----------------------------------------------------------------------------
(* The filters the compiler is checked on. *)

Atoms ==
    {ValE(KeyId, Num(1)),
     ValE(KeyA, Arr(<<>>)),
     ValE(KeyA, Arr(<<Num(1), Num(2)>>)),
     ValE(KeyA, Str(<<"x", "'">>)),
     ValE(KeyB, RegExp(<<"^", "x">>)),
     OpsE(KeyA, <<Op("$in", Arr(<<>>))>>),
     OpsE(KeyA, <<Op("$nin", Arr(<<>>))>>),
     OpsE(KeyA, <<Op("$in", Num(5))>>),
     OpsE(KeyA, <<Op("$in", Str(<<"x">>))>>),
     OpsE(KeyB, <<Op("$gt", Num(2))>>),
     OpsE(KeyB, <<Op("$gt", Num(2)), Op("$lte", Num(5))>>),
     OpsE(KeyB, <<Op("$el", Obj)>>),
     OpsE(KeyB, <<Op("$el", Arr(<<Num(1), Str(<<"x">>)>>))>>),
     OpsE(KeyB, <<Op("$size", Num(0))>>),
     OpsE(KeyB, <<Op("$size", Num(2))>>),
     OpsE(KeyB, <<Op("$bitsAllSet", Num(1)), Op("$bitsAnyClear", Num(2))>>),
     OpsE(KeyA, <<Op("$foo", Num(1))>>),
     OpsE(KeyA, <<Op("$foo", Num(1)), Op("$ne", Num(1))>>),
     OpsE(KeyA, <<Op("toString", Num(1))>>),
     OpsE(KeyB, <<Op("hasOwnProperty", Num(1)), Op("$gt", Num(2))>>)}

\* the expressions nested under $not, $and and $or
Subs ==
    {<<>>,
     <<ValE(KeyId, Num(1))>>,
     <<ValE(KeyA, Arr(<<>>))>>,
     <<OpsE(KeyB, <<Op("$el", Obj)>>)>>,
     <<OpsE(KeyA, <<Op("$foo", Num(1))>>)>>}

SeqsUpTo(S, n) == UNION {[1..k -> S] : k \in 0..n}

Logicals ==
    {NotE(e) : e \in Subs \cup {<<OrE(<<>>)>>, <<AndE(<<>>)>>}}
    \cup {AndE(es) : es \in SeqsUpTo(Subs, MaxList)}
    \cup {OrE(es) : es \in SeqsUpTo(Subs, MaxList)}

Queries ==
    {<<>>}
    \cup {<<x>> : x \in Atoms \cup Logicals}
    \cup {<<x, y>> : x \in {z \in Atoms : z.key = KeyA}, y \in {z \in Atoms : z.key = KeyB}}
    \cup {<<x, y>> : x \in {AndE(<<>>), OrE(<<>>)}, y \in Atoms}
    \cup {<<y, x>> : x \in {AndE(<<>>), OrE(<<>>)}, y \in Atoms}
    \cup {<<OrE(<<>>), AndE(es)>> : es \in SeqsUpTo(Subs, 1)}

----------------------------------------------------------------------------
(* The specifications. *)

InitFacade == /\ rows = {}
              /\ last = FacadeIdle
InitSyncIdle ==
    /\ config = [t \in Range(TableOrder) |-> TableConfig(<<FId>>, Single("id"), FALSE, <<>>)]
    /\ physical = [t \in Range(TableOrder) |-> <<>>]
    /\ db = "none"
    /\ pc = "idle"
    /\ idx = 0
    /\ synced = <<>>
    /\ hist = [t \in Range(TableOrder) |-> <<>>]
    /\ starts = 0
    /\ query = NoQuery
    /\ bots = <<>>
InitFilterIdle == /\ fq = <<>>
                  /\ fres = Pending

\* the compiler alone: createFilter applied to each filter
InitFilter ==
    /\ fq \in Queries
    /\ fres = Pending
    /\ InitFacade
    /\ InitSyncIdle
    /\ InitWs

Compile ==
    /\ fres = Pending
    /\ fres' = createFilter(TableName, fq)
    /\ UNCHANGED <<fq, facadeVars, syncVars, wsVars>>

NextFilter == Compile

SpecFilter == InitFilter /\ [][NextFilter]_vars

\* the facade over its table
InitFacadeSpec == InitFacade /\ InitSyncIdle /\ InitFilterIdle /\ InitWs

NextFacade ==
    \/ \E q \in FacadeQueries, mod \in Modifiers :
          Get(q, mod) /\ UNCHANGED <<syncVars, filterVars, wsVars>>
    \/ \E q \in FacadeQueries, data \in Patches :
          Set(q, data) /\ UNCHANGED <<syncVars, filterVars, wsVars>>
    \/ \E q \in FacadeQueries : Remove(q) /\ UNCHANGED <<syncVars, filterVars, wsVars>>
    \/ \E c \in UpsertCalls :
          Upsert(c.data, c.keys) /\ UNCHANGED <<syncVars, filterVars, wsVars>>

SpecFacade == InitFacadeSpec /\ [][NextFacade]_vars

\* the synchronizer: start(), stop() and query traffic
InitSync ==
    /\ config \in {c \in [Range(TableOrder) -> UNION {ConfigChoices(t) : t \in Range(TableOrder)}] :
                        \A t \in Range(TableOrder) : c[t] \in ConfigChoices(t)}
    /\ physical \in {p \in [Range(TableOrder) ->
                                UNION {PhysicalChoices(t) : t \in Range(TableOrder)}] :
                        \A t \in Range(TableOrder) : p[t] \in PhysicalChoices(t)}
    /\ bots \in BotChoices
    /\ db = "none"
    /\ pc = "idle"
    /\ idx = 0
    /\ synced = <<>>
    /\ hist = [t \in Range(TableOrder) |-> <<>>]
    /\ starts = 0
    /\ query = NoQuery
    /\ InitFacade
    /\ InitFilterIdle
    /\ InitWs

NextSync ==
    \/ Start /\ UNCHANGED <<facadeVars, filterVars, wsVars>>
    \/ SyncTable /\ UNCHANGED <<facadeVars, filterVars, wsVars>>
    \/ StartDone /\ UNCHANGED <<facadeVars, filterVars, wsVars>>
    \/ Stop /\ UNCHANGED <<facadeVars, filterVars, wsVars>>
    \/ \E t \in Range(TableOrder) : Query(t) /\ UNCHANGED <<facadeVars, filterVars, wsVars>>

SpecSync == InitSync /\ [][NextSync]_vars

\* the WebSocket client adapter: start(), stop() and the events of its
\* sockets, timers and promises
InitWsSpec == InitWs /\ InitFacade /\ InitSyncIdle /\ InitFilterIdle

NextWs ==
    \/ WsStart /\ UNCHANGED <<facadeVars, filterVars, syncVars>>
    \/ PrepareDone /\ UNCHANGED <<facadeVars, filterVars, syncVars>>
    \/ PrepareFails /\ UNCHANGED <<facadeVars, filterVars, syncVars>>
    \/ \E id \in Sockets : SocketOpen(id) /\ UNCHANGED <<facadeVars, filterVars, syncVars>>
    \/ \E id \in Sockets : SocketClose(id) /\ UNCHANGED <<facadeVars, filterVars, syncVars>>
    \/ TimerFires /\ UNCHANGED <<facadeVars, filterVars, syncVars>>
    \/ \E id \in Sockets :
          ConnectResolves(id) /\ UNCHANGED <<facadeVars, filterVars, syncVars>>
    \/ \E id \in Sockets :
          ConnectRejects(id) /\ UNCHANGED <<facadeVars, filterVars, syncVars>>
    \/ WsStop /\ UNCHANGED <<facadeVars, filterVars, syncVars>>
    \/ AppOpens /\ UNCHANGED <<facadeVars, filterVars, syncVars>>

SpecWs == InitWsSpec /\ [][NextWs]_vars

\* the same with what the event loop and the sockets guarantee: a timer
\* fires, prepare settles, a connecting socket opens or closes, and a socket
\* that was asked to close emits close.  A socket that is open and was not
\* asked to close may stay open for ever.
SpecWsFair ==
    /\ InitWsSpec
    /\ [][NextWs]_vars
    /\ WF_vars(TimerFires /\ UNCHANGED <<facadeVars, filterVars, syncVars>>)
    /\ WF_vars((PrepareDone \/ PrepareFails) /\ UNCHANGED <<facadeVars, filterVars, syncVars>>)
    /\ WF_vars(\E id \in Sockets :
                  /\ sock[id] = "connecting"
                  /\ SocketOpen(id) \/ SocketClose(id)
                  /\ UNCHANGED <<facadeVars, filterVars, syncVars>>)
    /\ WF_vars(\E id \in closeReq :
                  SocketClose(id) /\ UNCHANGED <<facadeVars, filterVars, syncVars>>)

----------------------------------------------------------------------------
(* The claims. *)

FacadeOps == {"get", "set", "remove"}
ZeroCount == Ret("count", 0)

InEqLang(q) ==
    \A i \in 1..Len(q) :
        /\ q[i].kind = "value"
        /\ \/ q[i].val.t = "num"
           \/ /\ q[i].val.t = "arr"
              /\ \A j \in 1..Len(q[i].val.items) : q[i].val.items[j].t = "num"

\* the row r satisfies the filter q of InEqLang
Matches(r, q) ==
    \A i \in 1..Len(q) :
        LET f == q[i].key[1] IN
        IF q[i].val.t = "num" THEN r[f] = ToString(q[i].val.n)
        ELSE \E j \in 1..Len(q[i].val.items) : r[f] = ToString(q[i].val.items[j].n)

Patched(r, patch) == [f \in DOMAIN r |-> IF patch[f] # Undef THEN patch[f] ELSE r[f]]

\* C2: set with a filter that is not the constant false changes only the
\* rows that match the filter: a matching row gets the patch's values, any
\* other row is left as it was.
C2_SetChangesMatchingRows ==
    [][(/\ last'.op = "set"
        /\ last'.filter.st = "ok"
        /\ last'.filter.text # FALSE_SQL
        /\ InEqLang(last'.arg.q))
       => rows' = {IF Matches(r, last'.arg.q) THEN Patched(r, last'.arg.patch) ELSE r :
                      r \in rows}]_vars

\* the conflict keys of an upsert call
ConflictKeys(arg) == IF arg.keys # <<>> THEN arg.keys ELSE Primary

SameKeys(r, x, ks) == \A i \in 1..Len(ks) : r[ks[i]] = x[ks[i]]

\* the row r carries every value the input row x gives
Carries(r, x) == \A f \in DOMAIN x : x[f] # Undef => r[f] = x[f]

\* C3: after upsert, for every input row that met an existing row with its
\* conflict-key values, that row carries the input's value in every field
\* and no row was added; for every other input row there is a new row with
\* its values.
C3_Upsert ==
    [][(last'.op = "upsert" /\ last'.arg.data # <<>>)
       => \A i \in 1..Len(last'.arg.data) :
            LET x == last'.arg.data[i]
                ks == ConflictKeys(last'.arg)
                pre == {r \in rows : SameKeys(r, x, ks)}
                post == {r \in rows' : SameKeys(r, x, ks)}
            IN  IF pre # {}
                THEN /\ Cardinality(post) = Cardinality(pre)
                     /\ \A r \in post : Carries(r, x)
                ELSE /\ Cardinality(post) = 1
                     /\ \A r \in post : Carries(r, x)]_vars

IdentTokens == {"user", "id", "a", "b"}
StringTokens == {"x", "\\'"}

\* the number of string delimiters before position i of the text s
RECURSIVE QuotesBefore(_, _)
QuotesBefore(s, i) ==
    IF i <= 1 THEN 0
    ELSE QuotesBefore(s, i - 1) + (IF s[i - 1] = "'" THEN 1 ELSE 0)

\* C4: in every statement the facade builds, an identifier stands between
\* the quotes of identifier quoting and the characters of a string value
\* stand inside a quoted literal.
C4_EverythingQuoted ==
    \A k \in 1..Len(last.stmts) :
        LET s == last.stmts[k] IN
        \A i \in 1..Len(s) :
            /\ s[i] \in IdentTokens => (i > 1 /\ i < Len(s) /\ s[i - 1] = BQ /\ s[i + 1] = BQ)
            /\ s[i] \in StringTokens => QuotesBefore(s, i) % 2 = 1

\* C5: the filter { $and: [] } compiles to the constant true.
C5_EmptyAndIsTrue ==
    (fres.st # "pending" /\ fq = <<AndE(<<>>)>>) => fres = Ok(TRUE_SQL)

HasEmptyOr(q) == \E i \in 1..Len(q) : q[i].kind = "$or" /\ Len(q[i].subs) = 0

\* C6: a filter whose $or list is empty compiles (when its other keys do
\* not make the compiler throw) to the constant false.
C6_EmptyOrIsFalse ==
    (fres.st = "ok" /\ HasEmptyOr(fq)) => fres.text = FALSE_SQL

\* { $or: [] } next to a condition that is not false was compiled
C6_Witness ==
    /\ fres = Ok(FALSE_SQL)
    /\ fq = <<OrE(<<>>), OpsE(KeyB, <<Op("$gt", Num(2))>>)>>

AllRuns(t) == {hist[t][i] : i \in 1..Len(hist[t])}

\* C7: after a syncTable in which no statement failed, the physical column
\* names of the table are the declared field names, created or altered.
C7_ColumnsConverge ==
    \A t \in Range(TableOrder) :
        /\ \A run \in AllRuns(t) : run.ok => Range(run.after) = Range(run.keys)
        /\ (Len(hist[t]) > 0 /\ hist[t][Len(hist[t])].ok) =>
                Range(physical[t]) = Range(FieldKeys(config[t]))

\* the identity table existed with other columns, and was altered with
\* more than one statement, none failing, to its fields and a platform's
C7_Witness ==
    /\ Len(hist["user"]) > 0
    /\ LET run == hist["user"][1]
       IN  /\ run.ok
           /\ run.before = <<"id", "old">>
           /\ Len(run.ddl) >= 3
           /\ Includes(run.keys, "onebot")
           /\ physical["user"] = run.after

\* C8: a second synchronization of a table whose first one succeeded, with
\* the same declared fields, hands no statement to run.
C8_SecondSyncEmitsNothing ==
    \A t \in Range(TableOrder) :
        \A i \in 2..Len(hist[t]) :
            (hist[t][i - 1].ok /\ hist[t][i].keys = hist[t][i - 1].keys) =>
                hist[t][i].ddl = <<>>

\* the identity table, with a bot's platform, was created by a first start()
\* and synchronized again by a second one
C8_Witness ==
    /\ bots # <<>>
    /\ Len(hist["user"]) = 2
    /\ hist["user"][1].ok
    /\ hist["user"][1].ddl # <<>>
    /\ hist["user"][1].before = <<>>
    /\ hist["user"][2].ok
    /\ Len(hist["channel"]) = 2
    /\ hist["channel"][1].ddl # <<>>

Count(ddl, op, col) == Cardinality({i \in 1..Len(ddl) : ddl[i].op = op /\ ddl[i].col = col})

\* every statement of the run is the ADD COLUMN of a declared name that was
\* not physical or the DROP COLUMN of a physical name that is not declared,
\* and no name has two statements
OnlyDiffStatements(run) ==
    /\ \A i \in 1..Len(run.ddl) :
        \/ /\ run.ddl[i].op = "ADD COLUMN"
           /\ Includes(run.keys, run.ddl[i].col) /\ ~Includes(run.before, run.ddl[i].col)
        \/ /\ run.ddl[i].op = "DROP COLUMN"
           /\ Includes(run.before, run.ddl[i].col) /\ ~Includes(run.keys, run.ddl[i].col)
    /\ \A i, j \in 1..Len(run.ddl) : run.ddl[i].col = run.ddl[j].col => i = j

\* every name only declared has its ADD COLUMN, every name only physical its
\* DROP COLUMN
AllDiffStatements(run) ==
    /\ \A c \in Range(run.keys) \ Range(run.before) : Count(run.ddl, "ADD COLUMN", c) = 1
    /\ \A c \in Range(run.before) \ Range(run.keys) : Count(run.ddl, "DROP COLUMN", c) = 1

\* C9 (as amended): for a table that exists, synchronization emits nothing
\* but one ADD COLUMN per name only declared and one DROP COLUMN per name
\* only physical, never a CREATE; it emits all of them when no statement
\* fails, and stops at the first statement that fails.
C9_ExactDiff ==
    \A t \in Range(TableOrder) :
        \A run \in AllRuns(t) :
            run.before # <<>> =>
                /\ OnlyDiffStatements(run)
                /\ run.ok => AllDiffStatements(run)
                /\ ~run.ok => ~run.ddl = <<>>

\* C9 as stated: for a table that exists, synchronization emits exactly one
\* ADD COLUMN for each name only declared, exactly one DROP COLUMN for each
\* name only physical, nothing for a name that is both, and never a CREATE.
C9_AsStated ==
    \A t \in Range(TableOrder) :
        \A run \in AllRuns(t) :
            run.before # <<>> => (OnlyDiffStatements(run) /\ AllDiffStatements(run))

\* an existing table was altered by an ADD COLUMN and a DROP COLUMN, with a
\* name both declared and physical left alone
C9_Witness ==
    /\ Len(hist["channel"]) > 0
    /\ LET run == hist["channel"][1]
       IN  /\ run.ok
           /\ run.before = <<"id", "old">>
           /\ Len(run.ddl) = 2
           /\ run.ddl[1].op = "ADD COLUMN"
           /\ run.ddl[2].op = "DROP COLUMN"

IsPrefix(s, t) == Len(s) <= Len(t) /\ \A i \in 1..Len(s) : s[i] = t[i]

C11_FailureIsFatal ==
    /\ \A t \in Range(TableOrder) :
          \A run \in AllRuns(t) :
             ~run.ok =>
                /\ run.ddl # <<>>
                /\ run.after = ApplyAll(run.before, SubSeq(run.ddl, 1, Len(run.ddl) - 1))
    /\ pc = "failed" =>
          /\ ~Includes(synced, TableOrder[idx])
          /\ ~hist[TableOrder[idx]][Len(hist[TableOrder[idx]])].ok
          /\ physical[TableOrder[idx]] = hist[TableOrder[idx]][Len(hist[TableOrder[idx]])].after
    /\ (query.executed /\ query.phase = "failed") => query.wasSynced

\* the invariants of a Table Config: the primary key and every unique key
\* name fields, and autoInc goes with a primary key of one field
ValidConfig(cfg) ==
    /\ \A i \in 1..Len(cfg.primary.names) : Includes(FieldKeys(cfg), cfg.primary.names[i])
    /\ \A i \in 1..Len(cfg.unique) : Includes(FieldKeys(cfg), cfg.unique[i])
    /\ cfg.autoInc => Len(cfg.primary.names) = 1

\* C12: with a Table Config that is invalid, start() hands no statement to
\* run for any table and never reports ready.
C12_InvalidConfigAborts ==
    (\E t \in Range(TableOrder) : ~ValidConfig(config[t])) =>
        /\ pc # "ready"
        /\ \A t \in Range(TableOrder) : \A run \in AllRuns(t) : run.ddl = <<>>

\* C16: a CREATE for a Table Config with a primary key declares the primary
\* key once: inline in a column definition and in no constraint when autoInc
\* is set, in one constraint and in no column definition otherwise.
C16_PrimaryKeyOnce ==
    \A t \in Range(TableOrder) :
        \A run \in AllRuns(t) :
            \A i \in 1..Len(run.ddl) :
                (run.ddl[i].op = "CREATE" /\ config[t].primary.names # <<>>) =>
                    LET stmt == run.ddl[i]
                        inline == Cardinality({d \in 1..Len(stmt.defs) : stmt.defs[d].inlinePk})
                        tabular == Cardinality({c \in 1..Len(stmt.constraints) :
                                                    stmt.constraints[c].kind = "PRIMARY KEY"})
                    IN  IF config[t].autoInc THEN inline = 1 /\ tabular = 0
                        ELSE inline = 0 /\ tabular = 1

\* C17: once the identity table was synchronized, the registry has for each
\* platform of a bot one field of that name, of type string, and one unique
\* entry naming it; and synchronizing another table changes no Table Config.
C17_RegistryPlatforms ==
    /\ [](Len(hist["user"]) > 0 =>
            \A p \in Range(bots) :
                /\ Cardinality({i \in 1..Len(config["user"].fields) :
                                    /\ config["user"].fields[i].name = p
                                    /\ config["user"].fields[i].type = "string"}) = 1
                /\ Cardinality({i \in 1..Len(config["user"].unique) :
                                    config["user"].unique[i] = p}) = 1)
    /\ [][hist'["channel"] # hist["channel"] => config' = config]_vars

\* an operator map gives $in or $nin something that is not an array, or $el
\* something that is neither an array, a number nor a string
HasUnsupported(q) ==
    \E i \in 1..Len(q) :
        /\ q[i].kind = "ops"
        /\ \E j \in 1..Len(q[i].ops) :
              \/ q[i].ops[j].op \in {"$in", "$nin"} /\ q[i].ops[j].arg.t # "arr"
              \/ q[i].ops[j].op = "$el" /\ q[i].ops[j].arg.t \notin {"arr", "num", "str"}

\* C13: compiling a filter that gives $in, $nin or $el an operand of an
\* unsupported shape raises an error; no predicate is put in its place.
C13_UnsupportedOperandThrows ==
    (fres.st # "pending" /\ HasUnsupported(fq)) => fres = Throw

\* one of the conditions conjoined at the top level of q renders to the
\* constant false: a field's shorthand, one of a field's operators, or a
\* member of a $and list
HasFalseConjunct(q) ==
    \E i \in 1..Len(q) :
        \/ /\ q[i].kind \in {"value", "ops"}
           /\ LET r == FieldConditions(q[i].key, q[i])
              IN  r.st = "ok" /\ \E k \in 1..Len(r.text) : r.text[k] = FALSE_SQL
        \/ /\ q[i].kind = "$and"
           /\ \E j \in 1..Len(q[i].subs) : parseQuery(q[i].subs[j]) = Ok(FALSE_SQL)

Strip(q) ==
    [i \in 1..Len(q) |->
        IF q[i].kind = "ops"
        THEN [q[i] EXCEPT !.ops = SelectSeq(@, LAMBDA o : o.op \in OperatorNames)]
        ELSE q[i]]

\* C15: a filter compiles to what it compiles to without its operator keys
\* outside the closed set: the constant true when nothing else is in it, its
\* other conditions otherwise.
C15_UnknownOperatorsDropped ==
    fres.st # "pending" => fres = createFilter(TableName, Strip(fq))

\* the step is the close event of a socket
ClosesNow == wsEvent' # wsEvent /\ wsEvent'.kind = "close"

\* C18 (as amended): a close while listening with the app not open rejects
\* the pending promise of _listen(bot) when RetryTimes retries were made
\* since the last open, and schedules a retry when fewer were made; a close
\* while listening with the app open always schedules a retry; an open sets
\* the count to zero; and a pending promise is rejected by nothing but such
\* a close or the rejection of this.connect(bot).
C18_RejectAfterRetries ==
    [][/\ (ClosesNow /\ listening /\ ~appOpen) =>
            IF retries >= RetryTimes
            THEN promise' = Settle(promise, "rejected") /\ timer' = timer
            ELSE promise' = promise /\ timer'
       /\ (ClosesNow /\ listening /\ appOpen) => (promise' = promise /\ timer')
       /\ (wsEvent' # wsEvent /\ wsEvent'.kind = "open") => retryCount' = 0
       /\ (promise = "pending" /\ promise' = "rejected") =>
            \/ wsEvent'.kind = "connect rejected"
            \/ ClosesNow /\ listening /\ ~appOpen /\ retries >= RetryTimes]_vars

\* C18 as stated: while listening with the app not open, the promise becomes
\* rejected exactly in the steps that are the close of a socket after
\* RetryTimes retries since the last open.
C18_AsStated ==
    [][(listening /\ ~appOpen /\ wsEvent' # wsEvent) =>
            ((promise # "rejected" /\ promise' = "rejected")
                <=> (ClosesNow /\ retries >= RetryTimes))]_vars

\* the promise was rejected by the close that followed the last retry, no
\* this.connect(bot) having rejected
C18_Witness ==
    /\ wsEvent.kind = "close"
    /\ promise = "rejected"
    /\ retries = RetryTimes
    /\ listening /\ ~appOpen /\ ~timer
    /\ \A id \in Sockets : conn[id] # "rejected"

\* C19: once stop() was called, connect(resolve, reject) is not called
\* again, and from some point on the bot has no socket: bot.socket is null
\* and no socket is open.
C19_StopQuiesces ==
    /\ [][stopped => attempts' = attempts]_vars
    /\ [](stopped => <>[](botSocket = NoSocket /\ \A id \in Sockets : sock[id] # "open"))

\* C20: a bot whose status is GOOD has in bot.socket a socket that is open.
C20_GoodHasOpenSocket ==
    botStatus = "GOOD" => (botSocket # NoSocket /\ sock[botSocket] = "open")

====
